---- MODULE Spec2Model ----
(***************************************************************************)
(* Model of the paste store of src/app.py: the Paste table, the two        *)
(* request handlers (index, paste) and the periodic cleanup job.           *)
(*                                                                         *)
(* Time is counted in minutes.  The UTC clock is `now`; the process's      *)
(* local clock is now + tz, because cleanup_old_pastes reads               *)
(* datetime.now() (naive local time) while Paste.timestamp is stamped      *)
(* with datetime.now(timezone.utc) and stored without its offset.          *)
(*                                                                         *)
(* A response is a function of the table and the request, so the          *)
(* responses are operators (Retrieve, IndexPage, CommitResponse) and the   *)
(* read handlers leave every variable unchanged.                           *)
(***************************************************************************)
EXTENDS Integers, Sequences, FiniteSets, TLC

\* ---------------------------------------------------------------- bounds
MaxTime == 20
\* the clock is read at this granularity; a request or a run of the cleanup
\* job is shorter than one step
TickMinutes == 5

\* request-handling tasks that may be inside index() at the same time
Handlers == {1, 2}
\* values urlsafe_b64encode(urandom(4)).decode()[:6] may yield
Ids == {"id1", "id2", "id3"}
\* submitted bodies, as character sequences: "", " ", "x "
FormBodies == {<<>>, <<" ">>, <<"x", " ">>}
\* submitted language values; the last two are not lexer aliases
FormLanguages == {"python", "", "klingon"}
\* offset of the process's local clock from UTC, in minutes
TzOffsets == {-60, 0, 60}

\* ------------------------------------------------------ program constants
RetentionMinutes == 10
IntervalMinutes == 10
FeedLimit == 10

VARIABLES store, pending, now, tz, sweeper, nextRun

vars == <<store, pending, now, tz, sweeper, nextRun>>

\* ------------------------------------------------------------- form
Whitespace == {" "}

RECURSIVE LStrip(_)
LStrip(s) == IF s # <<>> /\ Head(s) \in Whitespace THEN LStrip(Tail(s)) ELSE s

RECURSIVE RStrip(_)
RStrip(s) ==
    IF s # <<>> /\ s[Len(s)] \in Whitespace
    THEN RStrip(SubSeq(s, 1, Len(s) - 1))
    ELSE s

\* str.strip()
Strip(s) == RStrip(LStrip(s))

\* mutant of DataRequired: no validator on body
DataRequired_Absent(data) == TRUE

\* wtforms DataRequired on a string field
DataRequired(data) == data # <<>> /\ Strip(data) # <<>>

\* PasteForm.language.choices: the first alias of every pygments lexer
Choices == {"python", "text"}

\* PasteForm fields that fail validation (form.errors)
FormErrors(body, language) ==
    (IF DataRequired(body) THEN {} ELSE {"body"})
        \cup (IF language \in Choices THEN {} ELSE {"language"})

\* form.validate_on_submit() for a POST
ValidateOnSubmit(body, language) == FormErrors(body, language) = {}

\* ------------------------------------------------------------- Paste table
\* mutant of Paste: the body is stored stripped
Paste_StrippedBody(id, body, language, timestamp) ==
    [id |-> id, body |-> Strip(body), language |-> language,
     timestamp |-> timestamp, deleted |-> FALSE]

\* Paste(body=..., language=...) with the column defaults filled in at flush
Paste(id, body, language, timestamp) ==
    [id |-> id, body |-> body, language |-> language,
     timestamp |-> timestamp, deleted |-> FALSE]

HasId(st, id) == \E i \in 1..Len(st) : st[i].id = id

\* INSERT INTO paste: the primary key rejects an id that is already stored
InsertOk(st, p) == ~HasId(st, p.id)

\* mutant of Insert: no primary key on id
Insert_NoPrimaryKey(st, p) == Append(st, p)

Insert(st, p) == IF InsertOk(st, p) THEN Append(st, p) ELSE st

\* mutant of GetVisible: session.get(Paste, id), no filter on deleted
GetVisible_AnyRow(st, id) == SelectSeq(st, LAMBDA r : r.id = id)

\* SELECT ... WHERE id = :id AND deleted = false
GetVisible(st, id) == SelectSeq(st, LAMBDA r : r.id = id /\ ~r.deleted)

\* the pygments lexer aliases get_lexer_by_name accepts
LexerNames == Choices \cup {"py"}

\* mutant of Visible: the feed query without its filter on deleted
Visible_AllRows(st) == 1..Len(st)

\* row numbers of the rows a WHERE deleted = false keeps
Visible(st) == {i \in 1..Len(st) : ~st[i].deleted}

\* every enumeration of the row set S
Orders(S) ==
    {f \in [1..Cardinality(S) -> S] : \A a, b \in 1..Cardinality(S) : a # b => f[a] # f[b]}

\* mutant of OrderedByTimestampDesc: ORDER BY timestamp, oldest first
OrderedByTimestampAsc(st, f) ==
    \A k \in 1..(Len(f) - 1) : st[f[k]].timestamp <= st[f[k + 1]].timestamp

\* ORDER BY timestamp DESC (rows of equal timestamp come in no stated order)
OrderedByTimestampDesc(st, f) ==
    \A k \in 1..(Len(f) - 1) : st[f[k]].timestamp >= st[f[k + 1]].timestamp

Limit(f, n) == SubSeq(f, 1, IF Len(f) < n THEN Len(f) ELSE n)

\* SELECT ... WHERE deleted = false ORDER BY timestamp DESC LIMIT :limit,
\* as sequences of row numbers: every result the statement may produce
RecentRows(st, limit) ==
    {Limit(f, limit) : f \in {g \in Orders(Visible(st)) : OrderedByTimestampDesc(st, g)}}

ListRecentVisible(st, limit) ==
    {[k \in 1..Len(f) |-> st[f[k]]] : f \in RecentRows(st, limit)}

\* mutant of ExpireOlderThan: WHERE timestamp <= :cutoff
ExpireOlderThan_Inclusive(st, cutoff) ==
    [i \in 1..Len(st) |->
        IF st[i].timestamp <= cutoff THEN [st[i] EXCEPT !.deleted = TRUE] ELSE st[i]]

\* mutant of ExpireOlderThan: DELETE FROM paste WHERE timestamp < :cutoff
ExpireOlderThan_Purge(st, cutoff) == SelectSeq(st, LAMBDA r : ~(r.timestamp < cutoff))

\* mutant of ExpireOlderThan: SET deleted = NOT deleted
ExpireOlderThan_Toggle(st, cutoff) ==
    [i \in 1..Len(st) |->
        IF st[i].timestamp < cutoff THEN [st[i] EXCEPT !.deleted = ~st[i].deleted] ELSE st[i]]

\* UPDATE paste SET deleted = true WHERE timestamp < :cutoff
ExpireOlderThan(st, cutoff) ==
    [i \in 1..Len(st) |->
        IF st[i].timestamp < cutoff THEN [st[i] EXCEPT !.deleted = TRUE] ELSE st[i]]

\* rows the UPDATE matches (the statement's rowcount, which the job discards)
RowCount(st, cutoff) == Cardinality({i \in 1..Len(st) : st[i].timestamp < cutoff})

\* datetime.now() - timedelta(minutes=10): local wall clock, not UTC
Cutoff(clock, offset) == (clock + offset) - RetentionMinutes

\* ------------------------------------------------------------- responses
\* GET /<id>: 404 when no visible row matches, otherwise the rendered paste
Retrieve(st, id) ==
    LET rows == GetVisible(st, id) IN
    IF Len(rows) = 0 THEN [status |-> 404]
    ELSE IF Len(rows) > 1 THEN [status |-> 500, error |-> "MultipleResultsFound"]
    ELSE IF rows[1].language \notin LexerNames THEN [status |-> 500, error |-> "ClassNotFound"]
    ELSE [status |-> 200, paste |-> rows[1]]

\* the feed page of GET / and of a POST / that did not validate
IndexPage(st, errors) ==
    {[status |-> 200, errors |-> errors, pastes |-> feed] :
        feed \in ListRecentVisible(st, FeedLimit)}

\* the end of a valid POST /: redirect to the paste, or the INSERT's error
CommitResponse(st, p) ==
    IF InsertOk(st, p)
    THEN [status |-> 302, id |-> p.id]
    ELSE [status |-> 500, error |-> "IntegrityError"]

\* ------------------------------------------------------------- state
\* a handler that is not between the flush and the commit of a POST /
NoRequest == [body |-> <<>>, language |-> "", paste |-> [id |-> "none"]]

InFlight == {h \in Handlers : pending[h] # NoRequest}

Init ==
    /\ store = <<>>
    /\ pending = [h \in Handlers |-> NoRequest]
    /\ now = 0
    /\ tz \in TzOffsets
    /\ sweeper = "Idle"
    /\ nextRun = IntervalMinutes

\* GET /: the feed page
IndexGet ==
    /\ IndexPage(store, {}) # {}
    /\ UNCHANGED vars

\* POST / whose form does not validate: falls through to the feed page
IndexPostInvalid(body, language) ==
    /\ ~ValidateOnSubmit(body, language)
    /\ UNCHANGED vars
    /\ IndexPage(store, FormErrors(body, language)) # {}

\* POST / with a valid form, up to the flush: session.add(paste) and the
\* column defaults (id, timestamp) computed for the INSERT
IndexPostFlush(h, body, language) ==
    /\ pending[h] = NoRequest
    /\ ValidateOnSubmit(body, language)
    /\ \E id \in Ids :
          pending' = [pending EXCEPT ![h] =
                         [body |-> body, language |-> language,
                          paste |-> Paste(id, body, language, now)]]
    /\ UNCHANGED <<store, now, tz, sweeper, nextRun>>

\* POST /, as far as the form validation takes it
IndexPost(h, body, language) ==
    \/ IndexPostInvalid(body, language)
    \/ IndexPostFlush(h, body, language)

\* POST /, the INSERT and commit
IndexPostCommit(h) ==
    /\ pending[h] # NoRequest
    /\ store' = Insert(store, pending[h].paste)
    /\ pending' = [pending EXCEPT ![h] = NoRequest]
    /\ UNCHANGED <<now, tz, sweeper, nextRun>>

\* GET /<id>
PasteGet(id) ==
    /\ Retrieve(store, id).status \in {200, 404, 500}
    /\ UNCHANGED vars

\* the interval trigger fires the job; the next run is the next multiple of
\* the interval after now
SweepTick ==
    /\ sweeper = "Idle"
    /\ now >= nextRun
    /\ sweeper' = "Running"
    /\ nextRun' = nextRun + IntervalMinutes * (((now - nextRun) \div IntervalMinutes) + 1)
    /\ UNCHANGED <<store, pending, now, tz>>

\* cleanup_old_pastes runs to its commit
SweepRun ==
    /\ sweeper = "Running"
    /\ store' = ExpireOlderThan(store, Cutoff(now, tz))
    /\ sweeper' = "Idle"
    /\ UNCHANGED <<pending, now, tz, nextRun>>

\* mutant of SweepFail: the exception ends the scheduler's job
SweepFail_StopsJob ==
    /\ sweeper = "Running"
    /\ sweeper' = "Stopped"
    /\ UNCHANGED <<store, pending, now, tz, nextRun>>

\* cleanup_old_pastes raises (database locked or unreachable): nothing is
\* committed and the scheduler keeps the job
SweepFail ==
    /\ sweeper = "Running"
    /\ sweeper' = "Idle"
    /\ UNCHANGED <<store, pending, now, tz, nextRun>>

\* the clock advances; no request and no run of the job spans a step
Tick ==
    /\ InFlight = {}
    /\ sweeper = "Idle"
    /\ now + TickMinutes <= MaxTime
    /\ now' = now + TickMinutes
    /\ UNCHANGED <<store, pending, tz, sweeper, nextRun>>

Next ==
    \/ IndexGet
    \/ \E body \in FormBodies, language \in FormLanguages :
          IndexPostInvalid(body, language)
    \/ \E h \in Handlers, body \in FormBodies, language \in FormLanguages :
          IndexPostFlush(h, body, language)
    \/ \E h \in Handlers : IndexPostCommit(h)
    \/ \E id \in Ids : PasteGet(id)
    \/ SweepTick
    \/ SweepRun
    \/ SweepFail
    \/ Tick

Spec == Init /\ [][Next]_vars

\* a row of db.sqlite written by an earlier run of the process, under a
\* pygments release that had a lexer alias the running one has not
LegacyRow == Paste("id1", <<"x", " ">>, "klingon", 0 - TickMinutes)

\* start on the database file an earlier run left: create_all keeps its rows
InitLegacy ==
    /\ store = <<LegacyRow>>
    /\ pending = [h \in Handlers |-> NoRequest]
    /\ now = 0
    /\ tz \in TzOffsets
    /\ sweeper = "Idle"
    /\ nextRun = IntervalMinutes

SpecLegacy == InitLegacy /\ [][Next]_vars

\* ------------------------------------------------------------- claims

\* C1: a Retrieve of the id a successful create returned, made right after
\* the commit (no sweep in between), returns the paste with the submitted
\* body and language and deleted = false.
C1_RetrieveAfterCreate ==
    [][\A h \in Handlers :
          (IndexPostCommit(h) /\ CommitResponse(store, pending[h].paste).status = 302)
          => LET r == Retrieve(store', CommitResponse(store, pending[h].paste).id) IN
             /\ r.status = 200
             /\ r.paste.body = pending[h].body
             /\ r.paste.language = pending[h].language
             /\ r.paste.deleted = FALSE]_vars

\* C1 witness: a created paste is stored and a Retrieve of its id returns it
C1_Witness ==
    \E i \in 1..Len(store) :
        /\ Retrieve(store, store[i].id).status = 200
        /\ Retrieve(store, store[i].id).paste.body = <<"x", " ">>

\* the columns of row i that no operation may rewrite
SameContent(r1, r2) ==
    /\ r1.id = r2.id
    /\ r1.body = r2.body
    /\ r1.language = r2.language
    /\ r1.timestamp = r2.timestamp

\* C2: the table holds one row per id, deleted rows included; an insert of
\* an id that is already stored is refused with a conflict and changes
\* nothing, and no step rewrites the body, language or timestamp of a
\* stored row.
C2_OneRecordPerId ==
    /\ [](\A i, j \in 1..Len(store) : store[i].id = store[j].id => i = j)
    /\ [][/\ \A i \in 1..Len(store) :
                i <= Len(store') /\ SameContent(store'[i], store[i])
          /\ \A h \in Handlers :
                (IndexPostCommit(h) /\ HasId(store, pending[h].paste.id))
                => /\ store' = store
                   /\ CommitResponse(store, pending[h].paste).status = 500]_vars

\* C2 witness: two creations were given the same id; one is stored, the
\* other is about to be refused
C2_Witness ==
    \E h \in Handlers :
        /\ pending[h] # NoRequest
        /\ \E i \in 1..Len(store) :
              /\ store[i].id = pending[h].paste.id
              /\ store[i].timestamp = pending[h].paste.timestamp
        /\ CommitResponse(store, pending[h].paste).status = 500

\* an id of Ids that no stored row has
FreeIds(st) == {id \in Ids : ~HasId(st, id)}

\* C3 (as claimed): when the generated id is already stored and another id
\* is free, the create does not fail: it retries with a new id and its
\* paste is stored next to the one that had the id.
C3_RetryOnCollision ==
    [][\A h \in Handlers :
          (/\ IndexPostCommit(h)
           /\ HasId(store, pending[h].paste.id)
           /\ FreeIds(store) # {})
          => /\ Len(store') = Len(store) + 1
             /\ store'[Len(store')].id \in FreeIds(store)
             /\ store'[Len(store')].body = pending[h].body]_vars

\* C4 (as claimed): when every id the generator can return is stored, a
\* create ends in ResourceExhausted and leaves the table unchanged.
C4_ResourceExhausted ==
    \A h \in Handlers :
        (pending[h] # NoRequest /\ FreeIds(store) = {})
        => /\ CommitResponse(store, pending[h].paste).status = 500
           /\ CommitResponse(store, pending[h].paste).error = "ResourceExhausted"
           /\ Insert(store, pending[h].paste) = store

\* rows of st that no read shows: Retrieve answers 404 and no feed has them
Invisible(st, i) ==
    /\ Retrieve(st, st[i].id).status = 404
    /\ \A feed \in ListRecentVisible(st, FeedLimit) :
          \A k \in 1..Len(feed) : feed[k].id # st[i].id

\* C5 (as claimed): when a sweep completes, every paste whose timestamp is
\* more than the retention window before the (UTC) time of the sweep is
\* invisible to Retrieve and to the feed.
C5_ExpiredAfterSweep ==
    [][SweepRun =>
          \A i \in 1..Len(store') :
              store'[i].timestamp < now - RetentionMinutes => Invisible(store', i)]_vars

\* the table without the rows of an id
WithoutId(st, id) == SelectSeq(st, LAMBDA r : r.id # id)

\* C6: Retrieve of an id whose row is deleted answers exactly what it
\* answers on the same table without that row: 404.
C6_DeletedAsAbsent ==
    \A i \in 1..Len(store) :
        store[i].deleted
        => /\ Retrieve(store, store[i].id) = Retrieve(WithoutId(store, store[i].id), store[i].id)
           /\ Retrieve(store, store[i].id) = [status |-> 404]

\* C6 witness: a stored row is deleted and Retrieve of its id answers 404
C6_Witness ==
    \E i \in 1..Len(store) :
        /\ store[i].deleted
        /\ Len(WithoutId(store, store[i].id)) = Len(store) - 1
        /\ Retrieve(store, store[i].id).status = 404

Min(a, b) == IF a < b THEN a ELSE b

\* C7: for every limit, a feed has at most limit pastes, as many as there
\* are visible ones up to the limit, none deleted, none twice, in
\* non-increasing timestamp order, and no visible paste left out is newer
\* than a paste in the feed.
C7_RecentFeed ==
    \A limit \in 0..FeedLimit :
        \A feed \in ListRecentVisible(store, limit) :
            /\ Len(feed) = Min(limit, Cardinality(Visible(store)))
            /\ \A k \in 1..Len(feed) :
                  /\ ~feed[k].deleted
                  /\ \E i \in 1..Len(store) : store[i] = feed[k]
            /\ \A k, m \in 1..Len(feed) : feed[k].id = feed[m].id => k = m
            /\ \A k \in 1..(Len(feed) - 1) : feed[k].timestamp >= feed[k + 1].timestamp
            /\ \A i \in Visible(store) :
                  (\A k \in 1..Len(feed) : feed[k].id # store[i].id)
                  => \A k \in 1..Len(feed) : store[i].timestamp <= feed[k].timestamp

\* C7 witness: three visible pastes created at t1 < t2 < t3, and the feed of
\* limit 2 is the pastes of t3 and t2, in that order
C7_Witness ==
    /\ Len(store) = 3
    /\ Visible(store) = {1, 2, 3}
    /\ store[1].timestamp < store[2].timestamp
    /\ store[2].timestamp < store[3].timestamp
    /\ ListRecentVisible(store, 2) = {<<store[3], store[2]>>}

\* cutoffs a sweep may be run with
Cutoffs == {t - RetentionMinutes : t \in 0..(MaxTime + RetentionMinutes + 1)}

\* rows a run of ExpireOlderThan newly marks
NewlyMarked(st, cutoff) ==
    {i \in 1..Len(st) : ~st[i].deleted /\ ExpireOlderThan(st, cutoff)[i].deleted}

C9_EmptyRejected ==
    [][\A h \in Handlers, body \in FormBodies, language \in FormLanguages :
          (body = <<>> \/ language = "")
          => /\ FormErrors(body, language) # {}
             /\ (store' = store /\ pending' = pending) \/ ~IndexPost(h, body, language)]_vars

\* C9 witness: pastes are stored, and the two rejected forms carry an error
C9_Witness ==
    /\ Len(store) > 0
    /\ ~ValidateOnSubmit(<<>>, "python")
    /\ ~ValidateOnSubmit(<<"x", " ">>, "")
    /\ \A i \in 1..Len(store) : store[i].body # <<>> /\ store[i].language # ""

\* C10: a row that is deleted stays deleted, a new row is not deleted, and
\* only a step of the sweep changes a deleted flag.
C10_DeletedLatch ==
    [][/\ \A i \in 1..Len(store) :
             /\ i <= Len(store')
             /\ store[i].deleted => store'[i].deleted
             /\ store[i].deleted # store'[i].deleted => SweepRun
       /\ \A i \in (Len(store) + 1)..Len(store') : ~store'[i].deleted]_vars

\* C10 witness: a deleted row has a younger, visible row inserted after it
C10_Witness ==
    \E i, j \in 1..Len(store) :
        /\ i < j
        /\ store[i].deleted
        /\ ~store[j].deleted
        /\ store[i].timestamp < store[j].timestamp

\* C11: a run of the sweep always ends with the sweeper idle again; a run
\* that ends without marking changes no record, no pending request and no
\* schedule; and whatever the earlier runs did, an idle sweeper whose next
\* run is due can start it and an idle handler can take a request.
C11_SweepFailureIsolated ==
    /\ [](sweeper \in {"Idle", "Running"})
    /\ [](sweeper = "Idle" /\ now >= nextRun => ENABLED SweepTick)
    /\ [](\A h \in Handlers :
            pending[h] = NoRequest => ENABLED IndexPostFlush(h, <<"x", " ">>, "python"))
    /\ [][sweeper = "Running" /\ sweeper' # "Running"
          => /\ sweeper' = "Idle"
             /\ pending' = pending /\ nextRun' = nextRun
             /\ store' = store \/ store' = ExpireOlderThan(store, Cutoff(now, tz))
             /\ SweepFail => store' = store]_vars

\* C11 witness: the first run failed (it left a paste it would have marked)
\* and the run of the next tick is under way
C11_Witness ==
    /\ tz = 60
    /\ sweeper = "Running"
    /\ nextRun = 3 * IntervalMinutes
    /\ \E i \in 1..Len(store) : store[i].timestamp = 0 /\ ~store[i].deleted

\* C12 (as claimed): a paste that a sweep marks is at least the retention
\* window old, by the UTC clock that stamped it, when it is marked.
C12_NeverMarksYoung ==
    [][\A i \in 1..Len(store) :
          (i <= Len(store') /\ ~store[i].deleted /\ store'[i].deleted)
          => now - store[i].timestamp >= RetentionMinutes]_vars

\* C13: a run of the sweep leaves the rows in place and sets each row's
\* flag to: it was deleted, or its timestamp is before the run's cutoff; a
\* row stamped exactly at the cutoff keeps its flag.
C13_ExpireEffect ==
    [][SweepRun =>
          /\ Len(store') = Len(store)
          /\ \A i \in 1..Len(store) :
                /\ store'[i].deleted =
                      (store[i].deleted \/ store[i].timestamp < Cutoff(now, tz))
                /\ store[i].timestamp = Cutoff(now, tz)
                      => store'[i].deleted = store[i].deleted]_vars

\* C13 witness: a run has marked a row older than its cutoff and left
\* visible a row stamped exactly at the cutoff
C13_Witness ==
    /\ sweeper = "Idle"
    /\ nextRun > now
    /\ \E i, j \in 1..Len(store) :
          /\ store[i].timestamp < Cutoff(now, tz) /\ store[i].deleted
          /\ store[j].timestamp = Cutoff(now, tz) /\ ~store[j].deleted

\* C14 (as claimed): the feed of a table is one sequence, and pastes of
\* equal timestamp stand in it in the order they were inserted.
C14_TiesByInsertion ==
    \A limit \in 0..FeedLimit :
        /\ Cardinality(RecentRows(store, limit)) = 1
        /\ \A f \in RecentRows(store, limit) :
              \A k, m \in 1..Len(f) :
                  (k < m /\ store[f[k]].timestamp = store[f[m]].timestamp) => f[k] < f[m]

\* the ids of the stored rows
StoredIds(st) == {st[i].id : i \in 1..Len(st)}

\* C15: no step removes a row or changes the id, body, language or
\* timestamp of a row; a run of the sweep adds no row either; the read
\* handlers change nothing; the set of stored ids only grows.
C15_SoftDeleteOnly ==
    [][/\ Len(store') >= Len(store)
       /\ StoredIds(store) \subseteq StoredIds(store')
       /\ \A i \in 1..Len(store) : i <= Len(store') /\ SameContent(store'[i], store[i])
       /\ (sweeper = "Running" /\ sweeper' = "Idle") => Len(store') = Len(store)
       /\ store' = store \/ ~(IndexGet \/ \E id \in Ids : PasteGet(id))]_vars

\* C15 witness: after a run of the sweep every row is still stored, the
\* marked ones with their body, language and timestamp
C15_Witness ==
    /\ Len(store) = Cardinality(Ids)
    /\ sweeper = "Idle"
    /\ \E i \in 1..Len(store) : store[i].deleted
    /\ \A i \in 1..Len(store) :
          /\ store[i].body = <<"x", " ">>
          /\ store[i].language = "python"
          /\ store[i].timestamp \in 0..now

\* C16 (as claimed): a paste is marked no later than the first run of the
\* sweep that completes after its age has passed the retention window.
C16_ExpiresByFirstSweep ==
    [][SweepRun =>
          \A i \in 1..Len(store') :
              now - store'[i].timestamp > RetentionMinutes => store'[i].deleted]_vars

\* the rows of a table, as a set
Rows(st) == {st[i] : i \in 1..Len(st)}

\* what a Retrieve may answer about a row r: the row whole, or 404
WholeOrAbsent(r) == {[status |-> 200, paste |-> r], [status |-> 404]}

C18_UnknownLanguageRendered ==
    \A i \in Visible(store) :
        store[i].language \notin LexerNames
        => Retrieve(store, store[i].id) = [status |-> 200, paste |-> store[i]]

TypeOK ==
    /\ Len(store) <= Cardinality(Ids)
    /\ now \in 0..MaxTime
    /\ tz \in TzOffsets
    /\ sweeper \in {"Idle", "Running"}

====
